---- MODULE Spec2Model ----
(***************************************************************************)
(* Model of the Phi-4 multimodal HTTP service (src/api/api.py) and of the  *)
(* audio result display of its Streamlit front-end (src/app.py).           *)
(*                                                                         *)
(* Strings are modelled as sequences: a reference (URL or path) is a       *)
(* sequence of one-character strings, a prompt or a response text is a     *)
(* sequence of text pieces, an error message is a sequence of its parts.   *)
(***************************************************************************)
EXTENDS Integers, Sequences, FiniteSets, TLC

VARIABLES req, ui, ses

vars == <<req, ui, ses>>

(***************************************************************************)
(* Bounds                                                                  *)
(***************************************************************************)
\* the decoding budget max_new_tokens (1000 in the code), scaled down
MaxNewTokens == 2
\* longest response text (in pieces) the front-end is handed
MaxRespLen == 4
\* script runs followed in one browser session
MaxRuns == 3

\* handler threads of the server; Spec runs one, SpecThreaded runs both
Threads == {"t1", "t2"}

(***************************************************************************)
(* Sequence helpers                                                        *)
(***************************************************************************)
IndexOf(s, c) ==
  IF \E i \in 1..Len(s) : s[i] = c
  THEN CHOOSE i \in 1..Len(s) : s[i] = c /\ \A j \in 1..(i-1) : s[j] # c
  ELSE 0

Drop(s, n) == SubSeq(s, n + 1, Len(s))

IsPrefix(p, s) == Len(p) <= Len(s) /\ SubSeq(s, 1, Len(p)) = p

\* str.lstrip(chars)
RECURSIVE LStrip(_, _)
LStrip(s, chars) ==
  IF s # <<>> /\ s[1] \in chars THEN LStrip(Tail(s), chars) ELSE s

\* str.rstrip(chars)
RECURSIVE RStrip(_, _)
RStrip(s, chars) ==
  IF s # <<>> /\ s[Len(s)] \in chars
  THEN RStrip(SubSeq(s, 1, Len(s) - 1), chars) ELSE s

(***************************************************************************)
(* urllib.parse.urlparse, as used by load_file: scheme and path            *)
(***************************************************************************)
LowerLetters == {"c", "e", "f", "g", "h", "i", "l", "m", "p", "t"}
UpperLetters == {"C", "E", "F", "I", "L"}
SchemeChars == LowerLetters \cup UpperLetters \cup {"1", "+", "-", "."}

LowerChar(c) ==
  CASE c = "C" -> "c" [] c = "E" -> "e" [] c = "F" -> "f"
    [] c = "I" -> "i" [] c = "L" -> "l" [] OTHER -> c

LowerStr(s) == [i \in 1..Len(s) |-> LowerChar(s[i])]

\* position of the colon that ends a scheme, 0 when the reference has none
SchemeEnd(url) ==
  LET i == IndexOf(url, ":")
  IN IF i > 1 /\ url[1] \in (LowerLetters \cup UpperLetters)
        /\ \A j \in 1..(i-1) : url[j] \in SchemeChars
     THEN i ELSE 0

SchemeOf(url) ==
  IF SchemeEnd(url) = 0 THEN <<>> ELSE LowerStr(SubSeq(url, 1, SchemeEnd(url) - 1))

\* parsed_url.path: what follows the scheme, less a "//netloc" part
PathOf(url) ==
  LET rest == IF SchemeEnd(url) = 0 THEN url ELSE Drop(url, SchemeEnd(url))
  IN IF Len(rest) >= 2 /\ rest[1] = "/" /\ rest[2] = "/"
     THEN LET after == Drop(rest, 2)
              k == IndexOf(after, "/")
          IN IF k = 0 THEN <<>> ELSE Drop(after, k - 1)
     ELSE rest

SchemeFile == <<"f", "i", "l", "e">>
SchemeHttp == <<"h", "t", "t", "p">>

\* os.path.abspath: a relative path is joined to the working directory
Cwd == <<"/", "c">>
AbsPath(path) ==
  IF path # <<>> /\ path[1] = "/" THEN path
  ELSE IF path = <<>> THEN Cwd ELSE Cwd \o <<"/">> \o path

(***************************************************************************)
(* Inputs: references, JSON bodies, prompts                                *)
(***************************************************************************)
RefRel == <<"i", "m", "g">>
RefFile == <<"f", "i", "l", "e", ":", "/", "/", "/", "i", "m", "g">>
RefFileUpper == <<"F", "I", "L", "E", ":", "i", "m", "g">>
RefHttp == <<"h", "t", "t", "p", ":", "/", "/", "h", "/", "i">>
RefFtp == <<"f", "t", "p", ":", "/", "/", "h", "/", "i">>
RefDrive == <<"C", ":", "/", "i">>
Refs == {RefRel, RefFile, RefFileUpper, RefHttp, RefFtp, RefDrive}

\* a Python value that is None or a str
None == [some |-> FALSE, text |-> <<>>]
Str(t) == [some |-> TRUE, text |-> t]
PromptValues == {None, Str(<<>>), Str(<<" ">>), Str(<<"X">>)}

\* what request.get_json() finds in the request body
JsonBody(kind, num, items, urlKey, url, prompt) ==
  [kind |-> kind, num |-> num, items |-> items,
   urlKey |-> urlKey, url |-> url, prompt |-> prompt]
NoBody == JsonBody("none", 0, <<>>, "none", <<>>, None)
ObjectBodies ==
  {JsonBody("object", 0, <<>>, "none", <<>>, p) : p \in PromptValues}
  \cup {JsonBody("object", 0, <<>>, k, u, p) :
          k \in {"image_url", "audio_url"}, u \in Refs, p \in PromptValues}
OtherBodies ==
  {JsonBody("invalid", 0, <<>>, "none", <<>>, None),
   JsonBody("null", 0, <<>>, "none", <<>>, None),
   JsonBody("number", 0, <<>>, "none", <<>>, None),
   JsonBody("number", 5, <<>>, "none", <<>>, None),
   JsonBody("string", 0, <<>>, "none", <<>>, None),
   JsonBody("string", 0, <<"image_url">>, "none", <<>>, None),
   JsonBody("array", 0, <<>>, "none", <<>>, None),
   JsonBody("array", 0, <<"audio_url">>, "none", <<>>, None)}
Bodies == ObjectBodies \cup OtherBodies

Endpoints == {"image", "audio"}
UrlKey(ep) == IF ep = "image" THEN "image_url" ELSE "audio_url"

(***************************************************************************)
(* Python semantics the route handlers rely on                             *)
(***************************************************************************)
\* bool(x) of a str or None
Truthy(p) == p.some /\ p.text # <<>>

\* `not data`
Falsy(b) ==
  \/ b.kind = "null"
  \/ b.kind = "number" /\ b.num = 0
  \/ b.kind \in {"string", "array"} /\ b.items = <<>>
  \/ b.kind = "object" /\ b.urlKey = "none" /\ ~b.prompt.some

\* `key in data`: "raise" (TypeError) on a number
Contains(b, key) ==
  CASE b.kind = "number" -> "raise"
    [] b.kind \in {"string", "array"} ->
         IF \E i \in 1..Len(b.items) : b.items[i] = key THEN "yes" ELSE "no"
    [] b.kind = "object" -> IF b.urlKey = key THEN "yes" ELSE "no"
    [] OTHER -> "no"

(***************************************************************************)
(* Phi4Model.__init__: the control tokens; the prompt of each modality     *)
(***************************************************************************)
user_prompt == "<|user|>"
assistant_prompt == "<|assistant|>"
prompt_suffix == "<|end|>"

DefaultInstruction(ep) ==
  IF ep = "image" THEN <<"What is shown in this image?">>
  ELSE <<"Transcribe and translate. Use ", "<sep>", " as a separator.">>

MediaTag(ep) == IF ep = "image" THEN "<|image_1|>" ELSE "<|audio_1|>"

\* `custom_prompt or default`
Instruction(custom_prompt, default) ==
  IF Truthy(custom_prompt) THEN custom_prompt.text ELSE default

\* the f-string of process_image / process_audio
AssemblePrompt(ep, custom_prompt) ==
  <<user_prompt, MediaTag(ep)>>
    \o Instruction(custom_prompt, DefaultInstruction(ep))
    \o <<prompt_suffix, assistant_prompt>>

(***************************************************************************)
(* The processor (tokenizer) and the model's generate                      *)
(***************************************************************************)
Vocab == <<"<|user|>", "<|assistant|>", "<|end|>", "<|image_1|>", "<|audio_1|>",
           "What is shown in this image?",
           "Transcribe and translate. Use ", "<sep>", " as a separator.",
           " ", "X", "a">>
SpecialPieces == {"<|user|>", "<|assistant|>", "<|end|>", "<|image_1|>", "<|audio_1|>"}
TokenId(piece) == IndexOf(Vocab, piece)
IsSpecialId(id) == Vocab[id] \in SpecialPieces
IsTextId(id) == ~IsSpecialId(id)

\* processor(text=prompt, ...)["input_ids"]
InputIds(prompt) == [i \in 1..Len(prompt) |-> TokenId(prompt[i])]

\* processor.batch_decode(ids, skip_special_tokens=True)[0]
BatchDecode(ids) ==
  LET kept == SelectSeq(ids, IsTextId)
  IN [i \in 1..Len(kept) |-> Vocab[kept[i]]]

\* the tokens generate may append: text, the separator, the end token
GenIds == {TokenId("a"), TokenId("<sep>"), TokenId("<|end|>")}
NewTokenSeqs == UNION {[1..n -> GenIds] : n \in 1..MaxNewTokens}

\* generate_ids[:, inputs["input_ids"].shape[1]:]
\* (the slice left out: the echoed input is decoded too)
TrimEchoNoSlice(generate_ids, L) == generate_ids
TrimEcho(generate_ids, L) == SubSeq(generate_ids, L + 1, Len(generate_ids))

(***************************************************************************)
(* Phi4Model.load_file                                                     *)
(***************************************************************************)
\* `parsed_url.scheme in ["", "file"]`
\* (only the empty scheme taken as local)
IsLocalSchemeEmptyOnly(scheme) == scheme = <<>>
IsLocalScheme(scheme) == scheme \in {<<>>, SchemeFile}

\* the path a local reference names, before abspath
LocalPath(url) ==
  IF SchemeOf(url) = SchemeFile THEN LStrip(PathOf(url), {"/"}) ELSE url

\* what requests.get(url) can do: only http(s) has a connection adapter,
\* any other scheme raises; an http(s) fetch answers 200, answers another
\* status, or fails to connect
RemoteOutcomes(url) ==
  IF SchemeOf(url) \in {SchemeHttp, SchemeHttp \o <<"s">>}
  THEN {"http200", "http404", "connection_error"}
  ELSE {"invalid_schema"}

\* the outcomes of load_file(url): how the reference was classified, the
\* path it resolved to, whether a file object came back, and the message
\* of the exception raised otherwise; os.path.exists is the environment's
LoadOutcomes(url) ==
  IF IsLocalScheme(SchemeOf(url))
  THEN LET abs_path == AbsPath(LocalPath(url))
       IN {[cls |-> "local", path |-> abs_path, ok |-> TRUE,
            handle |-> "open", detail |-> <<>>],
           [cls |-> "local", path |-> abs_path, ok |-> FALSE,
            handle |-> "none", detail |-> <<"Local file not found: ">> \o abs_path]}
  ELSE {[cls |-> "remote", path |-> <<>>, ok |-> (o = "http200"),
         handle |-> "none",
         detail |-> IF o = "http200" THEN <<>>
                    ELSE IF o = "http404"
                    THEN <<"Failed to fetch remote file: HTTP ">>
                    ELSE <<o>>] : o \in RemoteOutcomes(url)}

\* file_obj.close()
\* (the close left out)
CloseFileForgotten(handle) == handle
CloseFile(handle) == IF handle = "open" THEN "closed" ELSE handle

(***************************************************************************)
(* One request, as the thread handling it sees it                          *)
(***************************************************************************)
NoReply == [kind |-> "none", text |-> <<>>]

IdleReq ==
  [pc |-> "Idle", endpoint |-> "none", body |-> NoBody,
   custom_prompt |-> None, prompt |-> <<>>,
   cls |-> "none", path |-> <<>>, handle |-> "none",
   input_ids |-> <<>>, generate_ids |-> <<>>, new_ids |-> <<>>,
   status |-> 0, reply |-> NoReply, stages |-> <<>>, failed |-> "none",
   calls |-> [load |-> 0, get |-> 0, decode |-> 0, generate |-> 0]]

\* the statements of Phi4Model.process_image / process_audio, in the order
\* the method runs them; pc names the statement to run next
\* (the prompt built after the media is decoded)
ProcessOrderLoadFirst == <<"Load", "Decode", "Assemble", "Tokenize", "Generate", "Finish">>
ProcessOrder == <<"Assemble", "Load", "Decode", "Tokenize", "Generate", "Finish">>

Following(stmt) == ProcessOrder[IndexOf(ProcessOrder, stmt) + 1]

ErrorPrefix(ep) ==
  IF ep = "image" THEN "Error processing image: " ELSE "Error processing audio: "

\* jsonify({...}), status: the route handler returns
Respond(r, status, kind, text) ==
  [r EXCEPT !.pc = "Responded", !.status = status,
            !.reply = [kind |-> kind, text |-> text],
            !.stages = Append(@, "Responded")]

\* an exception raised in the route handler itself: `except Exception as e`
\* of the route answers 500 with str(e)
RouteError(r, detail) == Respond(r, 500, "error", detail)

\* an exception raised inside Phi4Model.process_*: its `except` re-raises
\* with the prefix (closing nothing), then the route answers 500
ProcessError(r, stage, detail) ==
  RouteError([r EXCEPT !.failed = stage], <<ErrorPrefix(r.endpoint)>> \o detail)

(***************************************************************************)
(* The server: one action per step of a request                            *)
(***************************************************************************)
\* a POST arrives at /process_image or /process_audio
Receive(t) ==
  /\ req[t].pc = "Idle"
  /\ \E ep \in Endpoints, b \in Bodies :
       req' = [req EXCEPT ![t] =
                 [IdleReq EXCEPT !.pc = "Validate", !.endpoint = ep,
                                 !.body = b, !.stages = <<"Received">>]]
  /\ UNCHANGED <<ui, ses>>

\* the head of the route handler: get_json, the required-key test, and
\* data.get("prompt")
Validated(r) ==
  LET b == r.body
      required == <<UrlKey(r.endpoint), " is required">>
  IN IF b.kind = "invalid"
     THEN RouteError(r, <<"400 Bad Request: Failed to decode JSON object">>)
     ELSE IF Falsy(b) THEN Respond(r, 400, "error", required)
     ELSE CASE Contains(b, UrlKey(r.endpoint)) = "raise" ->
                 RouteError(r, <<"argument of type 'int' is not iterable">>)
            [] Contains(b, UrlKey(r.endpoint)) = "no" ->
                 Respond(r, 400, "error", required)
            [] OTHER ->
                 IF b.kind # "object"
                 THEN RouteError(r, <<"object has no attribute 'get'">>)
                 ELSE [r EXCEPT !.pc = ProcessOrder[1],
                                !.custom_prompt = b.prompt,
                                !.stages = Append(@, "Validated")]

Validate(t) ==
  /\ req[t].pc = "Validate"
  /\ req' = [req EXCEPT ![t] = Validated(req[t])]
  /\ UNCHANGED <<ui, ses>>

\* prompt = f"{user_prompt}<|image_1|>{custom_prompt or default}..."
Assembled(r) ==
  [r EXCEPT !.pc = Following("Assemble"),
            !.prompt = AssemblePrompt(r.endpoint, r.custom_prompt),
            !.stages = Append(@, "Assembling")]

Assemble(t) ==
  /\ req[t].pc = "Assemble"
  /\ req' = [req EXCEPT ![t] = Assembled(req[t])]
  /\ UNCHANGED <<ui, ses>>

\* file_obj = self.load_file(url)
\* r.calls counts the calls made for the request: load_file, the GET of
\* its remote branch, the media decode, model.generate
LoadCounted(r, o) ==
  [r EXCEPT !.stages = Append(@, "Loading"),
            !.cls = o.cls, !.path = o.path, !.handle = o.handle,
            !.calls.load = @ + 1,
            !.calls.get = IF o.cls = "remote" THEN @ + 1 ELSE @]

\* (a failed load tried once more before giving up)
LoadedRetrying(r, o) ==
  IF o.ok THEN [LoadCounted(r, o) EXCEPT !.pc = Following("Load")]
  ELSE IF r.calls.load = 0 THEN LoadCounted(r, o)
  ELSE ProcessError(LoadCounted(r, o), "Loading", o.detail)
Loaded(r, o) ==
  IF o.ok THEN [LoadCounted(r, o) EXCEPT !.pc = Following("Load")]
  ELSE ProcessError(LoadCounted(r, o), "Loading", o.detail)

Load(t) ==
  /\ req[t].pc = "Load"
  /\ \E o \in LoadOutcomes(req[t].body.url) :
       req' = [req EXCEPT ![t] = Loaded(req[t], o)]
  /\ UNCHANGED <<ui, ses>>

\* Image.open(file_obj) / sf.read(file_obj)
Decoded(r, ok) ==
  LET s == [r EXCEPT !.stages = Append(@, "Decoding"), !.calls.decode = @ + 1]
  IN IF ok THEN [s EXCEPT !.pc = Following("Decode")]
     ELSE ProcessError(s, "Decoding", <<"cannot decode media">>)

Decode(t) ==
  /\ req[t].pc = "Decode"
  /\ \E ok \in BOOLEAN : req' = [req EXCEPT ![t] = Decoded(req[t], ok)]
  /\ UNCHANGED <<ui, ses>>

\* inputs = self.processor(text=prompt, ...).to("cuda:0")
Tokenized(r, ok) ==
  LET s == [r EXCEPT !.stages = Append(@, "Inferring")]
  IN IF ok THEN [s EXCEPT !.pc = Following("Tokenize"),
                          !.input_ids = InputIds(r.prompt)]
     ELSE ProcessError(s, "Inferring", <<"processor failed">>)

Tokenize(t) ==
  /\ req[t].pc = "Tokenize"
  /\ \E ok \in BOOLEAN : req' = [req EXCEPT ![t] = Tokenized(req[t], ok)]
  /\ UNCHANGED <<ui, ses>>

\* self.model.generate(...) is entered: no lock is taken
GenerateCall(t) ==
  /\ req[t].pc = "Generate"
  /\ req' = [req EXCEPT ![t].pc = "Generating", ![t].calls.generate = @ + 1]
  /\ UNCHANGED <<ui, ses>>

\* generate returns the input tokens followed by the new ones, or raises
Generated(r, new) ==
  [r EXCEPT !.pc = Following("Generate"),
            !.generate_ids = r.input_ids \o new,
            !.new_ids = new]

GenerateReturn(t) ==
  /\ req[t].pc = "Generating"
  /\ \/ \E new \in NewTokenSeqs :
          req' = [req EXCEPT ![t] = Generated(req[t], new)]
     \/ req' = [req EXCEPT ![t] =
                  ProcessError(req[t], "Inferring", <<"generation failed">>)]
  /\ UNCHANGED <<ui, ses>>

\* the slice, batch_decode, file_obj.close(), return; the route answers 200
Finished(r) ==
  LET ids == TrimEcho(r.generate_ids, Len(r.input_ids))
  IN Respond([r EXCEPT !.generate_ids = ids, !.handle = CloseFile(@)],
             200, "response", BatchDecode(ids))

Finish(t) ==
  /\ req[t].pc = "Finish"
  /\ req' = [req EXCEPT ![t] = Finished(req[t])]
  /\ UNCHANGED <<ui, ses>>

\* the thread takes the next request; nothing of the last one is kept
NextRequest(t) ==
  /\ req[t].pc = "Responded"
  /\ req' = [req EXCEPT ![t] = IdleReq]
  /\ UNCHANGED <<ui, ses>>

Handle(t) ==
  \/ Receive(t) \/ Validate(t) \/ Assemble(t) \/ Load(t) \/ Decode(t)
  \/ Tokenize(t) \/ GenerateCall(t) \/ GenerateReturn(t) \/ Finish(t)
  \/ NextRequest(t)

(***************************************************************************)
(* The front-end's audio result display (StreamlitApp.audio_interface)     *)
(***************************************************************************)
\* str.split(sep): the pieces between the separators
RECURSIVE Split(_, _)
Split(text, sep) ==
  LET i == IndexOf(text, sep)
  IN IF i = 0 THEN <<text>>
     ELSE <<SubSeq(text, 1, i - 1)>> \o Split(Drop(text, i), sep)

\* str.strip()
Strip(text) == RStrip(LStrip(text, {" "}), {" "})

UiIdle == [pc |-> "idle", result |-> NoReply, shown |-> <<>>]

UiPieces == {"a", " ", "<sep>"}
UiResults ==
  {[kind |-> "response", text |-> x] :
     x \in UNION {[1..n -> UiPieces] : n \in 0..MaxRespLen}}
  \cup {[kind |-> "error", text |-> <<"Error processing audio: ">>]}

\* "Process Audio" is clicked with a file at hand: the API's answer arrives
ProcessAudioClick ==
  /\ ui.pc = "idle"
  /\ \E res \in UiResults : ui' = [ui EXCEPT !.pc = "result", !.result = res]
  /\ UNCHANGED <<req, ses>>

\* the unpacking `transcript, translation = response.split("<sep>")`
\* raises ValueError unless the split has two parts
Shown(u) ==
  IF u.result.kind = "error"
  THEN [u EXCEPT !.pc = "shown", !.shown = <<u.result.text>>]
  ELSE IF \E i \in 1..Len(u.result.text) : u.result.text[i] = "<sep>"
  THEN LET parts == Split(u.result.text, "<sep>")
       IN IF Len(parts) = 2
          THEN [u EXCEPT !.pc = "shown",
                         !.shown = <<Strip(parts[1]), Strip(parts[2])>>]
          ELSE [u EXCEPT !.pc = "crashed"]
  ELSE [u EXCEPT !.pc = "shown", !.shown = <<u.result.text>>]

ShowResult ==
  /\ ui.pc = "result"
  /\ ui' = Shown(ui)
  /\ UNCHANGED <<req, ses>>

\* the script is run again
Rerun ==
  /\ ui.pc \in {"shown", "crashed"}
  /\ ui' = UiIdle
  /\ UNCHANGED <<req, ses>>

(***************************************************************************)
(* The front-end's temporary directory over the script runs of a session   *)
(* (Phi4Interface.__init__, the save_* methods, StreamlitApp.cleanup)      *)
(***************************************************************************)
\* phi4, key: "phi4" and "temp_dir" are in st.session_state; dir: the
\* directory phi4.temp_dir names exists on disk; files: the files in it;
\* saved: the files the current (or last) run saved; next: the next uuid4;
\* cleanup: what the last call of cleanup did
NewSession ==
  [pc |-> "stopped", phi4 |-> FALSE, key |-> FALSE, dir |-> FALSE,
   files |-> {}, saved |-> {}, next |-> 1, runs |-> 0, cleanup |-> "none"]

\* Phi4Interface(): mkdtemp unless the session has a temp_dir, makedirs
InterfaceInit(s) == [s EXCEPT !.phi4 = TRUE, !.key = TRUE, !.dir = TRUE]

\* StreamlitApp(): the interface is built only if the session has none
StartRun ==
  /\ ses.pc = "stopped"
  /\ ses.runs < MaxRuns
  /\ ses' = [(IF ses.phi4 THEN ses ELSE InterfaceInit(ses))
               EXCEPT !.pc = "image_tab", !.saved = {}]
  /\ UNCHANGED <<req, ui>>

\* save_uploaded_file / save_url_file / save_audio_recording: makedirs of
\* the file's directory, then the file is written under a fresh uuid4 name
SaveFile(s) ==
  [s EXCEPT !.dir = TRUE, !.files = @ \cup {s.next},
            !.saved = @ \cup {s.next}, !.next = @ + 1]

\* what a tab is given: nothing, an upload, a URL that downloads, a URL
\* that does not, a recording
Saved(s, input) ==
  IF input \in {"upload", "url", "recording"} THEN SaveFile(s) ELSE s

ImageTab ==
  /\ ses.pc = "image_tab"
  /\ \E input \in {"none", "upload", "url", "bad_url"} :
       ses' = [Saved(ses, input) EXCEPT !.pc = "audio_tab"]
  /\ UNCHANGED <<req, ui>>

AudioTab ==
  /\ ses.pc = "audio_tab"
  /\ \E input \in {"none", "upload", "url", "bad_url", "recording"} :
       ses' = [Saved(ses, input) EXCEPT !.pc = "cleanup"]
  /\ UNCHANGED <<req, ui>>

\* StreamlitApp.cleanup, from the finally block: rmtree removes the
\* directory (or raises, which is reported and leaves it)
CleanedUp(s, rmtree_ok) ==
  IF s.key
  THEN IF s.dir
       THEN IF rmtree_ok
            THEN [s EXCEPT !.dir = FALSE, !.files = {}, !.key = FALSE,
                           !.cleanup = "removed"]
            ELSE [s EXCEPT !.cleanup = "raised"]
       ELSE [s EXCEPT !.cleanup = "skipped"]
  ELSE [s EXCEPT !.cleanup = "skipped"]

Cleanup ==
  /\ ses.pc = "cleanup"
  /\ \E rmtree_ok \in BOOLEAN :
       ses' = [CleanedUp(ses, rmtree_ok) EXCEPT !.pc = "stopped", !.runs = @ + 1]
  /\ UNCHANGED <<req, ui>>

(***************************************************************************)
(* Specifications                                                          *)
(***************************************************************************)
Init ==
  /\ req = [t \in Threads |-> IdleReq]
  /\ ui = UiIdle
  /\ ses = NewSession

\* the server handling one request at a time
Next == Handle("t1")
Spec == Init /\ [][Next]_vars

\* the server as app.run starts it: a thread per request, the model shared
NextThreaded == \E t \in Threads : Handle(t)
SpecThreaded == Init /\ [][NextThreaded]_vars

\* the front-end's audio tab
NextUi == ProcessAudioClick \/ ShowResult \/ Rerun
SpecUi == Init /\ [][NextUi]_vars

\* the script runs of one browser session
NextSession == StartRun \/ ImageTab \/ AudioTab \/ Cleanup
SpecSession == Init /\ [][NextSession]_vars

(***************************************************************************)
(* Properties                                                              *)
(***************************************************************************)
InStages(r, stage) == \E i \in 1..Len(r.stages) : r.stages[i] = stage

Responded(r) == r.pc = "Responded"

Prefixed(r) ==
  /\ r.reply.kind = "error"
  /\ r.reply.text # <<>>
  /\ r.reply.text[1] = ErrorPrefix(r.endpoint)

\* C1: when a request is responded to, the local file handle load_file
\* opened for it is closed, on the successful path and on every failing one.
C1_HandleClosedAtResponse ==
  \A t \in Threads : Responded(req[t]) => req[t].handle # "open"

\* the body is JSON that holds no value under the endpoint's url key
LacksUrl(r) ==
  /\ r.body.kind # "invalid"
  /\ ~(r.body.kind = "object" /\ r.body.urlKey = UrlKey(r.endpoint))

\* C2: a request whose body lacks image_url (audio_url) is answered exactly
\* 400 {"error": "<key> is required"}, and nothing is loaded, decoded or
\* generated for it.
C2_MissingUrlIs400 ==
  \A t \in Threads :
    (Responded(req[t]) /\ LacksUrl(req[t])) =>
      /\ req[t].status = 400
      /\ req[t].reply = [kind |-> "error",
                         text |-> <<UrlKey(req[t].endpoint), " is required">>]
      /\ req[t].stages = <<"Received", "Responded">>
      /\ req[t].cls = "none"

\* the route's test `not data or "<key>" not in data` came out false
PassedKeyTest(r) ==
  /\ r.body.kind # "invalid"
  /\ ~Falsy(r.body)
  /\ Contains(r.body, UrlKey(r.endpoint)) = "yes"

\* C3: a request that passes validation and then fails, in a stage or by any
\* other exception raised in the route handler, ends in 500 with a message
\* that begins with the stage prefix, and the failing stage is the last one
\* that ran.
C3_Every500Prefixed ==
  \A t \in Threads :
    LET r == req[t]
    IN (Responded(r) /\ PassedKeyTest(r) /\ r.status # 200) =>
         /\ r.status = 500
         /\ Prefixed(r)
         /\ r.failed # "none" => r.stages[Len(r.stages) - 1] = r.failed

\* the place of a stage in an order of stages
Rank(order, stage) == IndexOf(order, stage)

InOrder(order, stages) ==
  \A i, j \in 1..Len(stages) :
    i < j => Rank(order, stages[i]) < Rank(order, stages[j])

DocumentedOrder ==
  <<"Received", "Validated", "Loading", "Decoding", "Assembling",
    "Inferring", "Responded">>

ActualOrder ==
  <<"Received", "Validated", "Assembling", "Loading", "Decoding",
    "Inferring", "Responded">>

C5_GenerateSerialized ==
  Cardinality({t \in Threads : req[t].pc = "Generating"}) <= 1

\* C6: the assembled prompt is <|user|><|image_1|>{instruction}<|end|>
\* <|assistant|> (audio: <|audio_1|>), the instruction being the supplied
\* prompt verbatim whenever one is supplied, the empty string included, and
\* the modality's default only when none is supplied.
C6_PromptVerbatim ==
  \A t \in Threads :
    LET r == req[t]
    IN InStages(r, "Assembling") =>
         r.prompt =
           <<"<|user|>", IF r.endpoint = "image" THEN "<|image_1|>" ELSE "<|audio_1|>">>
           \o (IF r.body.prompt.some THEN r.body.prompt.text
               ELSE DefaultInstruction(r.endpoint))
           \o <<"<|end|>", "<|assistant|>">>

\* a local image file that exists and decodes
ValidLocalImage(r) ==
  /\ r.endpoint = "image"
  /\ r.cls = "local"
  /\ r.handle # "none"
  /\ InStages(r, "Decoding")
  /\ r.failed # "Decoding"

C8_Classification ==
  \A t \in Threads :
    LET r == req[t]
        url == r.body.url
    IN InStages(r, "Loading") =>
         /\ r.cls \in {"local", "remote"}
         /\ r.cls = "local" <=> url \in {RefRel, RefFile, RefFileUpper}
         /\ r.cls = "local" <=> SchemeOf(url) \in {<<>>, <<"f", "i", "l", "e">>}
         /\ url \in {RefFtp, RefDrive} =>
              /\ r.cls = "remote"
              /\ r.handle = "none"
              /\ Responded(r)
              /\ r.status = 500
              /\ r.reply.kind = "error"

\* an ftp:// reference was answered 500 by the remote path
C8_Witness ==
  \E t \in Threads :
    /\ Responded(req[t])
    /\ req[t].body.url = RefFtp
    /\ req[t].cls = "remote"
    /\ req[t].status = 500

\* C9: the text returned is the decoding of exactly the tokens generate
\* appended to the L input tokens, at most the budget of them, and it does
\* not begin with the assembled prompt.
C9_EchoStripped ==
  \A t \in Threads :
    LET r == req[t]
    IN (Responded(r) /\ r.status = 200) =>
         /\ Len(r.new_ids) <= MaxNewTokens
         /\ r.generate_ids = r.new_ids
         /\ r.reply.text = BatchDecode(r.new_ids)
         /\ ~IsPrefix(r.prompt, r.reply.text)

\* a generation of several new tokens, text among them, was answered
C9_Witness ==
  \E t \in Threads :
    /\ Responded(req[t])
    /\ req[t].status = 200
    /\ Len(req[t].new_ids) = MaxNewTokens
    /\ req[t].reply.text # <<>>
    /\ Len(req[t].input_ids) >= 5

\* C10: an audio response that contains <sep>, once or more often, is shown
\* as exactly two segments without failing; one without <sep> is shown as a
\* single segment.
C10_SepSplitsInTwo ==
  (ui.pc \in {"shown", "crashed"} /\ ui.result.kind = "response") =>
    /\ ui.pc = "shown"
    /\ IF \E i \in 1..Len(ui.result.text) : ui.result.text[i] = "<sep>"
       THEN Len(ui.shown) = 2
       ELSE ui.shown = <<ui.result.text>>

\* C11: no stage is retried: a request makes at most one load_file call
\* (so at most one remote GET), at most one media decode and at most one
\* model.generate call, each stage runs at most once, and a request that
\* failed in a stage has been answered 500 and runs nothing more.
C11_NoRetry ==
  \A t \in Threads :
    LET r == req[t]
    IN /\ r.calls.load <= 1
       /\ r.calls.get <= r.calls.load
       /\ r.calls.decode <= 1
       /\ r.calls.generate <= 1
       /\ \A i, j \in 1..Len(r.stages) : r.stages[i] = r.stages[j] => i = j
       /\ r.failed # "none" => (Responded(r) /\ r.status = 500)

\* a remote fetch failed after its one GET and the request was answered
C11_Witness ==
  \E t \in Threads :
    /\ Responded(req[t])
    /\ req[t].failed = "Loading"
    /\ req[t].cls = "remote"
    /\ req[t].calls.get = 1
    /\ req[t].calls.decode = 0

\* C12: after cleanup returns at the end of a script run (rmtree not having
\* raised), the session's temporary directory and every file the run saved
\* into it no longer exist on disk.
C12_CleanupRemovesAll ==
  (ses.pc = "stopped" /\ ses.runs > 0 /\ ses.cleanup # "raised") =>
    /\ ~ses.dir
    /\ ses.saved \cap ses.files = {}

====
